---- MODULE Spec2Model ----
(***************************************************************************)
(* micrograd: the scalar reverse-mode autograd engine (src/src/grad.py),   *)
(* Module.zero_grad (src/src/nn.py) and the DataLoader (src/src/data.py).  *)
(*                                                                         *)
(* A computation graph is the sequence `cells`; a Value object is its      *)
(* index in the sequence (object identity).  Numbers are exact rationals   *)
(* [n, d]; the results of math.exp, math.log and tanh are given by tables  *)
(* of one-decimal roundings over the arguments the model draws.          *)
(***************************************************************************)
EXTENDS Integers, Sequences, FiniteSets, TLC

\* ------------------------------------------------------------- bounds
MaxCells == 3
MaxPasses == 1
MaxArithCells == 4
MaxArithPasses == 2
MaxZeroCells == 2
MaxZeroPasses == 3
MaxLen == 3
MaxBatch == 2
MaxPulls == 4
MaxIters == 2
MaxNum == 100

LeafVals == {-1, 0, 2}
Exponents == {-1, 0, 2}

\* ------------------------------------------------------------- numbers
Abs(i) == IF i < 0 THEN -i ELSE i

RECURSIVE GCD(_, _)
GCD(a, b) == IF b = 0 THEN a ELSE GCD(b, a % b)

Rat(n, d) ==
    LET g == GCD(Abs(n), Abs(d))
        s == IF d < 0 THEN -1 ELSE 1
    IN  [n |-> s * (n \div g), d |-> s * (d \div g)]

RInt(i) == [n |-> i, d |-> 1]
Zero == RInt(0)
One == RInt(1)
RAdd(a, b) ==
    LET g == GCD(a.d, b.d)
    IN  Rat(a.n * (b.d \div g) + b.n * (a.d \div g), (a.d \div g) * b.d)
RMul(a, b) ==
    LET g1 == GCD(Abs(a.n), b.d)
        g2 == GCD(Abs(b.n), a.d)
    IN  Rat((a.n \div g1) * (b.n \div g2), (a.d \div g2) * (b.d \div g1))
RInv(a) == Rat(a.d, a.n)
RPos(a) == a.n > 0

RECURSIVE RPowNat(_, _)
RPowNat(a, k) == IF k = 0 THEN One ELSE RMul(a, RPowNat(a, k - 1))

\* a ** k for an int k; the caller has excluded a = 0 with k < 0
RPow(a, k) == IF k >= 0 THEN RPowNat(a, k) ELSE RPowNat(RInv(a), -k)

\* math.exp, math.log and the tanh formula, rounded to one decimal
ExpTable ==
    [x \in {-1, 0, 1, 2} |->
        CASE x = -1 -> Rat(4, 10)
          [] x = 0 -> One
          [] x = 1 -> Rat(27, 10)
          [] x = 2 -> Rat(74, 10)]

LogTable ==
    [x \in {1, 2, 4} |->
        CASE x = 1 -> Zero
          [] x = 2 -> Rat(7, 10)
          [] x = 4 -> Rat(14, 10)]

TanhTable ==
    [x \in {-1, 0, 1} |->
        CASE x = -1 -> Rat(-8, 10)
          [] x = 0 -> Zero
          [] x = 1 -> Rat(8, 10)]

IsInt(a) == a.d = 1
\* the magnitudes of the forward values the model draws
Small(a) == Abs(a.n) <= MaxNum /\ a.d <= MaxNum
InExpTable(a) == IsInt(a) /\ a.n \in DOMAIN ExpTable
InLogTable(a) == IsInt(a) /\ a.n \in DOMAIN LogTable
InTanhTable(a) == IsInt(a) /\ a.n \in DOMAIN TanhTable

\* ------------------------------------------------------------- Value
\* A closure stored in _backward: the rule and the variables it captured.
NoRule == [kind |-> "none", self |-> 0, other |-> 0, out |-> 0, k |-> 0, x |-> Zero]

Rule(kind, self, other, out, k, x) ==
    [kind |-> kind, self |-> self, other |-> other, out |-> out, k |-> k, x |-> x]

\* set(_children): the distinct children, in the order the set iterates them
\* (fixed when the set is built; `swap` is the order the hash table gives).
SetOf(children, swap) ==
    IF Len(children) < 2 THEN children
    ELSE IF children[1] = children[2] THEN <<children[1]>>
    ELSE IF swap THEN <<children[2], children[1]>>
    ELSE children

\* Value.__init__; `args` keeps the _children tuple as passed, `k` the
\* exponent shown in the _op tag of a power.
Value(data, children, swap, op, k) ==
    [data |-> data, grad |-> Zero, _backward |-> NoRule,
     _prev |-> SetOf(children, swap), _op |-> op, args |-> children, k |-> k]

Ok(cs, out) == [cells |-> cs, out |-> out, err |-> "none"]
Raise(cs, err) == [cells |-> cs, out |-> 0, err |-> err]

\* An operand is a Value (a cell) or a raw number.
Cell(i) == [isValue |-> TRUE, cell |-> i, num |-> Zero]
Num(v) == [isValue |-> FALSE, cell |-> 0, num |-> v]

\* other if isinstance(other, Value) else Value(other)
Coerce(cs, other) ==
    IF other.isValue THEN Ok(cs, other.cell)
    ELSE Ok(Append(cs, Value(other.num, <<>>, FALSE, "", 0)), Len(cs) + 1)

add(cs, self, other, swap) ==
    LET c == Coerce(cs, other)
        o == c.out
        out == Len(c.cells) + 1
        v == Value(RAdd(c.cells[self].data, c.cells[o].data), <<self, o>>, swap, "+", 0)
        cs2 == Append(c.cells, v)
    IN  Ok([cs2 EXCEPT ![out]._backward = Rule("add", self, o, out, 0, Zero)], out)

mul(cs, self, other, swap) ==
    LET c == Coerce(cs, other)
        o == c.out
        out == Len(c.cells) + 1
        v == Value(RMul(c.cells[self].data, c.cells[o].data), <<self, o>>, swap, "*", 0)
        cs2 == Append(c.cells, v)
    IN  Ok([cs2 EXCEPT ![out]._backward = Rule("mul", self, o, out, 0, Zero)], out)

\* `other` is an operand: the assert rejects a Value; 0 ** negative raises.
pow(cs, self, other) ==
    IF other.isValue THEN Raise(cs, "AssertionError")
    ELSE IF cs[self].data = Zero /\ other.num.n < 0 THEN Raise(cs, "ZeroDivisionError")
    ELSE
        LET k == other.num.n
            out == Len(cs) + 1
            v == Value(RPow(cs[self].data, k), <<self>>, FALSE, "**", k)
            cs2 == Append(cs, v)
        IN  Ok([cs2 EXCEPT ![out]._backward = Rule("pow", self, 0, out, k, Zero)], out)

\* self * other**-1, other a Value
truediv(cs, self, other, swap) ==
    LET p == pow(cs, other, Num(RInt(-1)))
    IN  IF p.err # "none" THEN p ELSE mul(p.cells, self, Cell(p.out), swap)

\* self * -1
neg(cs, self, swap) == mul(cs, self, Num(RInt(-1)), swap)

\* self + (-other)
sub(cs, self, other, swap1, swap2) ==
    LET m == neg(cs, other, swap1)
    IN  add(m.cells, self, Cell(m.out), swap2)

exp(cs, self) ==
    LET x == cs[self].data
        out == Len(cs) + 1
        cs2 == Append(cs, Value(ExpTable[x.n], <<self>>, FALSE, "exp", 0))
    IN  Ok([cs2 EXCEPT ![out]._backward = Rule("exp", self, 0, out, 0, Zero)], out)

\* (a log that stores its rule before the domain check)
log_store_first(cs, self) ==
    LET x == cs[self].data
        out == Len(cs) + 1
        marked == [cs EXCEPT ![self]._backward = Rule("log", self, 0, out, 0, x)]
    IN  IF ~RPos(x) THEN Raise(marked, "ValueError")
        ELSE Ok(Append(marked, Value(LogTable[x.n], <<self>>, FALSE, "log", 0)), out)

\* math.log raises ValueError for x <= 0; the rule is stored on self, not out
log(cs, self) ==
    LET x == cs[self].data
        out == Len(cs) + 1
    IN  IF ~RPos(x) THEN Raise(cs, "ValueError")
        ELSE
            LET cs2 == Append(cs, Value(LogTable[x.n], <<self>>, FALSE, "log", 0))
            IN  Ok([cs2 EXCEPT ![self]._backward = Rule("log", self, 0, out, 0, x)], out)

tanh(cs, self) ==
    LET x == cs[self].data
        t == TanhTable[x.n]
        out == Len(cs) + 1
        cs2 == Append(cs, Value(t, <<self>>, FALSE, "tanh", 0))
    IN  Ok([cs2 EXCEPT ![out]._backward = Rule("tanh", self, 0, out, 0, t)], out)

relu(cs, self) ==
    LET x == cs[self].data
        t == IF RPos(x) THEN x ELSE Zero
        out == Len(cs) + 1
        cs2 == Append(cs, Value(t, <<self>>, FALSE, "relu", 0))
    IN  Ok([cs2 EXCEPT ![out]._backward = Rule("relu", self, 0, out, 0, Zero)], out)

\* ------------------------------------------------------------- backward
\* (a rule that assigns where the code accumulates)
AccumulateAssign(old, delta) == delta

\* self.grad += delta
Accumulate(old, delta) == RAdd(old, delta)

AddGrad(cs, i, delta) == [cs EXCEPT ![i].grad = Accumulate(cs[i].grad, delta)]

Done(cs) == [cells |-> cs, err |-> "none"]

\* node._backward(): runs the closure stored in the cell
call_backward(cs, node) ==
    LET f == cs[node]._backward
        g == cs[f.out].grad
    IN  CASE f.kind = "none" -> Done(cs)
          [] f.kind = "add" ->
                LET c1 == AddGrad(cs, f.self, RMul(g, One))
                IN  Done(AddGrad(c1, f.other, RMul(c1[f.out].grad, One)))
          [] f.kind = "mul" ->
                LET c1 == AddGrad(cs, f.self, RMul(cs[f.other].data, g))
                IN  Done(AddGrad(c1, f.other, RMul(c1[f.self].data, c1[f.out].grad)))
          [] f.kind = "pow" ->
                IF cs[f.self].data = Zero /\ f.k - 1 < 0
                THEN [cells |-> cs, err |-> "ZeroDivisionError"]
                ELSE Done(AddGrad(cs, f.self,
                        RMul(RMul(RInt(f.k), RPow(cs[f.self].data, f.k - 1)), g)))
          [] f.kind = "exp" -> Done(AddGrad(cs, f.self, RMul(cs[f.out].data, g)))
          [] f.kind = "log" -> Done(AddGrad(cs, f.self, RMul(g, RInv(f.x))))
          [] f.kind = "tanh" ->
                Done(AddGrad(cs, f.self, RMul(RAdd(One, RMul(RInt(-1), RMul(f.x, f.x))), g)))
          [] f.kind = "relu" ->
                Done(AddGrad(cs, f.self, IF RPos(cs[f.out].data) THEN g ELSE Zero))

RECURSIVE build_topo(_, _, _)
RECURSIVE visit_children(_, _, _, _)
\* build_topo(node) with the enclosing visited set and topo list as `st`
build_topo(cs, node, st) ==
    IF node \in st.visited THEN st
    ELSE
        LET s1 == [visited |-> st.visited \cup {node}, topo |-> st.topo]
            s2 == visit_children(cs, cs[node]._prev, 1, s1)
        IN  [visited |-> s2.visited, topo |-> Append(s2.topo, node)]

\* for child in node._prev: build_topo(child)
visit_children(cs, kids, i, st) ==
    IF i > Len(kids) THEN st
    ELSE visit_children(cs, kids, i + 1, build_topo(cs, kids[i], st))

Topo(cs, root) == build_topo(cs, root, [visited |-> {}, topo |-> <<>>]).topo

Reversed(s) == [i \in 1..Len(s) |-> s[Len(s) + 1 - i]]

\* (a pass that clears the other gradients before it starts)
SetRootGradReset(cs, root) ==
    [i \in 1..Len(cs) |-> [cs[i] EXCEPT !.grad = IF i = root THEN One ELSE Zero]]

\* self.grad = 1.0
SetRootGrad(cs, root) == [cs EXCEPT ![root].grad = One]

RECURSIVE run_rules(_, _, _, _)
\* for node in reversed(topo): node._backward(); an exception ends the loop
run_rules(cs, order, i, called) ==
    IF i > Len(order) THEN [cells |-> cs, calls |-> called, err |-> "none"]
    ELSE
        LET r == call_backward(cs, order[i])
        IN  IF r.err # "none"
            THEN [cells |-> r.cells, calls |-> Append(called, order[i]), err |-> r.err]
            ELSE run_rules(r.cells, order, i + 1, Append(called, order[i]))

backward(cs, root) ==
    run_rules(SetRootGrad(cs, root), Reversed(Topo(cs, root)), 1, <<>>)

\* (a zero_grad that leaves the gradients as they are)
zero_grad_skip(cs, params) == cs

\* Module.zero_grad: for p in self.parameters(): p.grad = 0
zero_grad(cs, params) ==
    [i \in 1..Len(cs) |-> IF i \in params THEN [cs[i] EXCEPT !.grad = Zero] ELSE cs[i]]

\* ------------------------------------------------------------- state
VARIABLES
    cells,      \* the Value objects created so far, by identity
    last,       \* the last call made on the engine and the exception it raised
    calls,      \* the cells whose _backward the last backward() invoked, in order
    hist,       \* bookkeeping about the passes run (read by the properties only)
    loader,     \* the DataLoader object
    iter        \* the consumer's for-loops over the loader

vars == <<cells, last, calls, hist, loader, iter>>

Ids == 1..Len(cells)

Grads(cs) == [i \in 1..Len(cs) |-> cs[i].grad]

RECURSIVE ReachFrom(_, _, _)
\* the cells reachable from the frontier through _prev
ReachFrom(cs, frontier, seen) ==
    IF frontier \subseteq seen THEN seen
    ELSE
        LET s2 == seen \cup frontier
        IN  ReachFrom(cs, UNION {{cs[n]._prev[j] : j \in 1..Len(cs[n]._prev)} : n \in frontier}, s2)

Reach(cs, root) == ReachFrom(cs, {root}, {})

NoHist ==
    [roots |-> <<>>, tracked |-> TRUE, passes |-> 0, stage |-> 0, root |-> 0,
     snap |-> <<>>, before |-> <<>>, fresh |-> FALSE, freshBefore |-> FALSE]

\* a call: the method, the exception it raised, self and the other argument
NoArg == Num(Zero)
Call(op, err, self, other) == [op |-> op, err |-> err, self |-> self, other |-> other]

InitEngine ==
    /\ cells = <<>>
    /\ last = Call("init", "none", 0, NoArg)
    /\ calls = <<>>
    /\ hist = NoHist

\* a forward call returned r (a new graph, or an exception and the old one)
Forward(r, op, self, other, cap) ==
    /\ Len(cells) < cap
    /\ Len(r.cells) <= cap
    /\ \A i \in 1..Len(r.cells) : Small(r.cells[i].data)
    /\ cells' = r.cells
    /\ last' = Call(op, r.err, self, other)
    /\ hist' = [hist EXCEPT !.stage = 0]
    /\ UNCHANGED <<calls, loader, iter>>

\* a forward call that can raise: the call that raises creates no cell and
\* is made on a graph of any size
ForwardOrRaise(r, op, self, other, cap) ==
    /\ Len(r.cells) <= cap
    /\ \A i \in 1..Len(r.cells) : Small(r.cells[i].data)
    /\ cells' = r.cells
    /\ last' = Call(op, r.err, self, other)
    /\ hist' = [hist EXCEPT !.stage = 0]
    /\ UNCHANGED <<calls, loader, iter>>

Swaps(a, b) == IF a = b THEN {FALSE} ELSE BOOLEAN

\* Value(v).  Cells are numbered in creation order and a leaf depends on
\* nothing, so every graph has a copy in which the leaves the caller makes
\* come first, in nondecreasing value; only those copies are built.
Leaf(cap) ==
    \E v \in LeafVals :
        /\ \A i \in Ids : cells[i]._prev = <<>> /\ cells[i].data.n <= v
        /\ Forward(Ok(Append(cells, Value(RInt(v), <<>>, FALSE, "", 0)), Len(cells) + 1),
                   "leaf", 0, Num(RInt(v)), cap)

Add(cap) ==
    \E self \in Ids, other \in Ids : \E swap \in Swaps(self, other) :
        Forward(add(cells, self, Cell(other), swap), "add", self, Cell(other), cap)

Mul(cap) ==
    \E self \in Ids, other \in Ids : \E swap \in Swaps(self, other) :
        Forward(mul(cells, self, Cell(other), swap), "mul", self, Cell(other), cap)

Pow(cap) ==
    \E self \in Ids, k \in Exponents :
        ForwardOrRaise(pow(cells, self, Num(RInt(k))), "pow", self, Num(RInt(k)), cap)

PowByCell(cap) ==
    \E self \in Ids, other \in Ids :
        ForwardOrRaise(pow(cells, self, Cell(other)), "pow", self, Cell(other), cap)

Div(cap) ==
    \E self \in Ids, other \in Ids : \E swap \in BOOLEAN :
        ForwardOrRaise(truediv(cells, self, other, swap), "truediv", self, Cell(other), cap)

Neg(cap) ==
    \E self \in Ids, swap \in BOOLEAN :
        Forward(neg(cells, self, swap), "neg", self, NoArg, cap)

Sub(cap) ==
    \E self \in Ids, other \in Ids, swap1 \in BOOLEAN, swap2 \in BOOLEAN :
        Forward(sub(cells, self, other, swap1, swap2), "sub", self, Cell(other), cap)

Exp(cap) ==
    \E self \in Ids :
        /\ InExpTable(cells[self].data)
        /\ Forward(exp(cells, self), "exp", self, NoArg, cap)

Log(cap) ==
    \E self \in Ids :
        /\ ~RPos(cells[self].data) \/ InLogTable(cells[self].data)
        /\ ForwardOrRaise(log(cells, self), "log", self, NoArg, cap)

Tanh(cap) ==
    \E self \in Ids :
        /\ InTanhTable(cells[self].data)
        /\ Forward(tanh(cells, self), "tanh", self, NoArg, cap)

Relu(cap) ==
    \E self \in Ids :
        Forward(relu(cells, self), "relu", self, NoArg, cap)

AllZero(cs, S) == \A i \in S : cs[i].grad = Zero

Backward(maxPasses) ==
    \E root \in Ids :
        LET r == backward(cells, root)
            again == hist.stage = 2 /\ hist.root = root
        IN  /\ hist.passes < maxPasses
            /\ cells' = r.cells
            /\ calls' = r.calls
            /\ last' = Call("backward", r.err, root, NoArg)
            /\ hist' = [roots |-> Append(hist.roots, root),
                        tracked |-> hist.tracked,
                        passes |-> hist.passes + 1,
                        stage |-> IF again THEN 3 ELSE 1,
                        root |-> root,
                        snap |-> Grads(r.cells),
                        before |-> IF again THEN hist.snap ELSE <<>>,
                        fresh |-> AllZero(cells, Reach(cells, root)),
                        freshBefore |-> again /\ hist.fresh]
            /\ UNCHANGED <<loader, iter>>

\* zero_grad over the cells of one graph, or over every cell
ZeroGrad ==
    \E params \in {Reach(cells, r) : r \in Ids} \cup {Ids} :
        LET cs == zero_grad(cells, params)
            whole == hist.stage \in {1, 3} /\ params = Reach(cells, hist.root)
        IN  /\ cells # <<>>
            /\ hist.passes > 0
            /\ cells' = cs
            /\ last' = Call("zero_grad", "none", 0, NoArg)
            /\ hist' = [hist EXCEPT !.stage = IF whole THEN 2 ELSE 0,
                                    !.roots = <<>>,
                                    !.tracked = AllZero(cs, 1..Len(cs))]
            /\ UNCHANGED <<calls, loader, iter>>

NoLoader == [x_data |-> <<>>, y_data |-> <<>>, batch_size |-> <<>>, shuffle |-> FALSE,
             data |-> <<>>, index |-> 0]
NoIter == [pc |-> "idle", got |-> <<>>, loops |-> 0]

\* the forward pass of a cycle: the graph is built before the passes over it
Building == hist.passes = 0

Init == InitEngine /\ loader = NoLoader /\ iter = NoIter

\* every operation of the engine and one pass, calls in any order
\* (a - b is -b followed by a + that cell, so Sub adds no graph here)
Next ==
    \/ Leaf(MaxCells)
    \/ Add(MaxCells)
    \/ Mul(MaxCells)
    \/ Pow(MaxCells)
    \/ PowByCell(MaxCells)
    \/ Div(MaxCells)
    \/ Neg(MaxCells)
    \/ Exp(MaxCells)
    \/ Log(MaxCells)
    \/ Tanh(MaxCells)
    \/ Relu(MaxCells)
    \/ Backward(MaxPasses)

Spec == Init /\ [][Next]_vars

\* graphs of add, multiply, negate, subtract and relu, and passes over them
NextArith ==
    \/ Building /\ Leaf(MaxArithCells)
    \/ Building /\ Add(MaxArithCells)
    \/ Building /\ Mul(MaxArithCells)
    \/ Building /\ Neg(MaxArithCells)
    \/ Building /\ Sub(MaxArithCells)
    \/ Building /\ Relu(MaxArithCells)
    \/ Backward(MaxArithPasses)

SpecArith == Init /\ [][NextArith]_vars

\* the operations that create one cell, with passes and zero_grad between them
NextZero ==
    \/ Building /\ Leaf(MaxZeroCells)
    \/ Building /\ Add(MaxZeroCells)
    \/ Building /\ Mul(MaxZeroCells)
    \/ Building /\ Pow(MaxZeroCells)
    \/ Building /\ PowByCell(MaxZeroCells)
    \/ Building /\ Exp(MaxZeroCells)
    \/ Building /\ Log(MaxZeroCells)
    \/ Building /\ Tanh(MaxZeroCells)
    \/ Building /\ Relu(MaxZeroCells)
    \/ Backward(MaxZeroPasses)
    \/ ZeroGrad

SpecZero == Init /\ [][NextZero]_vars

\* ------------------------------------------------------------- DataLoader
Min(a, b) == IF a < b THEN a ELSE b

\* list(zip(x_data, y_data)): pairs up to the shorter list
Zip(xs, ys) == [i \in 1..Min(Len(xs), Len(ys)) |-> <<xs[i], ys[i]>>]

\* zip(*pairs): the tuple of firsts and the tuple of seconds
Unzip(pairs) == <<[i \in 1..Len(pairs) |-> pairs[i][1]], [i \in 1..Len(pairs) |-> pairs[i][2]]>>

\* data[lo : hi] with 0-based bounds, clipped to the list
Slice(s, lo, hi) == [i \in 1..(Min(hi, Len(s)) - lo) |-> s[lo + i]]

\* the orders random.shuffle can leave a list in
Shuffles(s) ==
    {[i \in 1..Len(s) |-> s[p[i]]] :
        p \in {q \in [1..Len(s) -> 1..Len(s)] : \A i, j \in 1..Len(s) : q[i] = q[j] => i = j}}

\* sample i is the pair (i, -i)
LabelOf(x) == 0 - x
XData(n) == [i \in 1..n |-> i]
YData(n) == [i \in 1..n |-> LabelOf(i)]

\* batch_size: None, or a number of samples
None == <<>>
Size(k) == <<k>>

\* DataLoader.__init__
DataLoader(x_data, y_data, batch_size, shuffle) ==
    [x_data |-> x_data, y_data |-> y_data, batch_size |-> batch_size, shuffle |-> shuffle,
     data |-> Zip(x_data, y_data), index |-> 0]

InitLoader ==
    /\ \E nx \in 0..MaxLen, ny \in 0..MaxLen, bs \in {None} \cup {Size(k) : k \in 1..MaxBatch}, sh \in BOOLEAN :
            loader = DataLoader(XData(nx), YData(ny), bs, sh)
    /\ iter = NoIter

\* DataLoader.__iter__, called when a for-loop over the loader starts
DLIter ==
    /\ iter.pc \in {"idle", "stopped"}
    /\ iter.loops < MaxIters
    /\ \E d \in (IF loader.shuffle THEN Shuffles(loader.data) ELSE {loader.data}) :
            loader' = [loader EXCEPT !.data = d]
    /\ iter' = [pc |-> "looping", got |-> <<>>, loops |-> iter.loops + 1]
    /\ UNCHANGED <<cells, last, calls, hist>>

\* DataLoader.__next__, called by the for-loop until it raises StopIteration
DLNext ==
    /\ iter.pc = "looping"
    /\ IF loader.index >= Len(loader.data)
       THEN /\ iter' = [iter EXCEPT !.pc = "stopped"]
            /\ UNCHANGED loader
       ELSE /\ Len(iter.got) < MaxPulls
            /\ IF loader.batch_size = None
               THEN /\ iter' = [iter EXCEPT !.got = Append(@, Unzip(loader.data))]
                    /\ UNCHANGED loader
               ELSE /\ iter' = [iter EXCEPT !.got = Append(@,
                            Unzip(Slice(loader.data, loader.index,
                                        loader.index + loader.batch_size[1])))]
                    /\ loader' = [loader EXCEPT !.index = @ + loader.batch_size[1]]
    /\ UNCHANGED <<cells, last, calls, hist>>

NextLoader == DLIter \/ DLNext

InitData == InitEngine /\ InitLoader

SpecLoader == InitData /\ [][NextLoader]_vars

\* ------------------------------------------------------------- derivatives
\* The derivative of the root with respect to a cell, from the forward
\* values and the operand tuples alone (no _backward closure is read).
ArgSet(cs, o) == {cs[o].args[p] : p \in 1..Len(cs[o].args)}
IsLeaf(cs, i) == cs[i]._prev = <<>>

\* d(value of o) / d(value of its operand c)
LocalD(cs, o, c) ==
    LET a == cs[o].args
        x == cs[c].data
    IN  CASE cs[o]._op = "+" ->
                RAdd(IF a[1] = c THEN One ELSE Zero, IF a[2] = c THEN One ELSE Zero)
          [] cs[o]._op = "*" ->
                RAdd(IF a[1] = c THEN cs[a[2]].data ELSE Zero,
                     IF a[2] = c THEN cs[a[1]].data ELSE Zero)
          [] cs[o]._op = "**" ->
                \* x ** 0 is the constant 1
                IF cs[o].k = 0 THEN Zero
                ELSE RMul(RInt(cs[o].k), RPow(x, cs[o].k - 1))
          [] cs[o]._op = "exp" -> cs[o].data
          [] cs[o]._op = "log" -> RInv(x)
          [] cs[o]._op = "tanh" ->
                RAdd(One, RMul(RInt(-1), RMul(cs[o].data, cs[o].data)))
          [] cs[o]._op = "relu" -> IF RPos(x) THEN One ELSE Zero
          [] OTHER -> Zero

RECURSIVE Deriv(_, _, _)
RECURSIVE DerivFrom(_, _, _, _)
\* the sum, over the directed paths from c to root, of the products of the
\* local derivatives along the path
Deriv(cs, c, root) == IF c = root THEN One ELSE DerivFrom(cs, c, root, c + 1)

\* the part of that sum going through the consumers of c numbered o and up
DerivFrom(cs, c, root, o) ==
    IF o > Len(cs) THEN Zero
    ELSE RAdd(IF c \in ArgSet(cs, o)
              THEN RMul(Deriv(cs, o, root), LocalD(cs, o, c))
              ELSE Zero,
              DerivFrom(cs, c, root, o + 1))

Consumers(cs, c) == {o \in 1..Len(cs) : c \in ArgSet(cs, o)}
Graph == Reach(cells, hist.root)
AfterBackward == last.op = "backward"

\* ------------------------------------------------------------- claims
\* C1: after backward(root) on a graph of add, multiply, negate, subtract and
\* relu whose gradients were all 0, the pass has not raised, root.grad is 1
\* and the gradient of every reachable cell is the sum over the paths from the
\* cell to the root of the products of the local derivatives (cells used
\* twice by one operation and cells with several consumers included).
C1_PathSums ==
    (AfterBackward /\ hist.fresh) =>
        /\ last.err = "none"
        /\ cells[hist.root].grad = One
        /\ \A c \in Graph : cells[c].grad = Deriv(cells, c, hist.root)

\* C1 witness: a first pass over a graph in which a cell with a nonzero
\* gradient feeds two different cells of the graph and another cell is used
\* twice by one operation.
C1_Witness ==
    /\ AfterBackward /\ hist.fresh /\ hist.passes = 1
    /\ \E a \in Graph :
        /\ Cardinality(Consumers(cells, a) \cap Graph) >= 2
        /\ cells[a].grad.n # 0
    /\ \E o \in Graph : Len(cells[o].args) = 2 /\ cells[o].args[1] = cells[o].args[2]

\* C2: a root computed through log(u), u itself an operation result: a pass
\* from all-zero gradients that does not raise leaves every cell of the graph,
\* the operands of u included, with the derivative of the root with respect
\* to it.
C2_ChainThroughLog ==
    (/\ AfterBackward /\ hist.fresh /\ last.err = "none"
     /\ \E o \in Graph : cells[o]._op = "log" /\ ~IsLeaf(cells, cells[o].args[1]))
        => \A c \in Graph : cells[c].grad = Deriv(cells, c, hist.root)

\* C3: backward(root) never raises on a graph that was built.
C3_BackwardNeverRaises == AfterBackward => last.err = "none"

PosIn(seq, c) == {i \in 1..Len(seq) : seq[i] = c}

\* C8: backward(root) invokes the rule of every reachable cell exactly once,
\* of no other cell, and of a cell only after the rules of its consumers.
C8_EachRuleOnce ==
    AfterBackward =>
        /\ \A c \in Graph : Cardinality(PosIn(calls, c)) = 1
        /\ \A i \in 1..Len(calls) : calls[i] \in Graph
        /\ \A c \in Graph : \A o \in Consumers(cells, c) \cap Graph :
                \A i \in PosIn(calls, c) : \E j \in PosIn(calls, o) : j < i

IsForward(op) == op \notin {"init", "backward", "zero_grad"}

\* C9: a forward call changes no field of a cell that existed before it.
C9_ForwardFrame ==
    [][IsForward(last'.op) =>
            /\ Len(cells') >= Len(cells)
            /\ \A i \in 1..Len(cells) : cells'[i] = cells[i]]_vars

\* C5: log of a cell whose value is <= 0 raises ValueError, power with a
\* Value as exponent raises AssertionError, and either call leaves the
\* graph as it was: no new cell, no field of a cell changed.
C5_FailedCallFrame ==
    [][/\ (last'.op = "log" /\ ~RPos(cells[last'.self].data))
            => (last'.err = "ValueError" /\ cells' = cells)
       /\ (last'.op = "pow" /\ last'.other.isValue)
            => (last'.err = "AssertionError" /\ cells' = cells)]_vars

\* C5 witness: log has just raised on a cell of a graph holding an operation.
C5_Witness ==
    /\ last.op = "log" /\ last.err = "ValueError"
    /\ ~RPos(cells[last.self].data)
    /\ \E i \in Ids : ~IsLeaf(cells, i)

SameGradsOnGraph == \A c \in Graph : hist.snap[c] = hist.before[c]

\* C4 as stated: backward(root), zero the gradient of every cell of the graph,
\* backward(root) again: every cell has the gradient the first pass left.
C4_Original == hist.stage = 3 => SameGradsOnGraph

C4_Repeat == (hist.stage = 3 /\ hist.freshBefore) => SameGradsOnGraph

C4_ZeroFrame ==
    [][last'.op = "zero_grad" =>
            /\ Len(cells') = Len(cells)
            /\ \A i \in Ids : [cells'[i] EXCEPT !.grad = Zero] = [cells[i] EXCEPT !.grad = Zero]
            /\ \A i \in Ids : cells'[i].grad \in {Zero, cells[i].grad}]_vars

\* C4 amended: when the gradients of the graph were all 0 before the first
\* backward(root), zeroing the cells of the graph and running backward(root)
\* again gives every cell of the graph the gradient the first pass left; and
\* zero_grad changes gradient fields only.
C4_Amended == []C4_Repeat /\ C4_ZeroFrame

\* C4 witness: the second pass has run after a first pass from zero gradients
\* and a zeroing, and a cell other than the root holds a nonzero gradient.
C4_Witness ==
    /\ hist.stage = 3 /\ hist.freshBefore
    /\ \E c \in Graph : c # hist.root /\ cells[c].grad.n # 0

TwoPasses == hist.passes = 2 /\ Len(hist.roots) = 2 /\ hist.tracked

\* two graphs of add and multiply whose roots are operation results and
\* which share leaf cells only
SharedLeavesOnly(r1, r2) ==
    LET G1 == Reach(cells, r1)
        G2 == Reach(cells, r2)
    IN  /\ ~IsLeaf(cells, r1) /\ ~IsLeaf(cells, r2)
        /\ \A c \in G1 \cup G2 : cells[c]._op \in {"", "+", "*"}
        /\ \A c \in G1 \cap G2 : IsLeaf(cells, c)

C10_Sum ==
    (TwoPasses /\ SharedLeavesOnly(hist.roots[1], hist.roots[2])) =>
        \A p \in Reach(cells, hist.roots[1]) \cup Reach(cells, hist.roots[2]) :
            cells[p].grad = RAdd(Deriv(cells, p, hist.roots[1]), Deriv(cells, p, hist.roots[2]))

C10_Frame ==
    [][last'.op = "backward" =>
            /\ Len(cells') = Len(cells)
            /\ cells'[last'.self].grad = One
            /\ \A i \in Ids :
                /\ cells'[i].data = cells[i].data
                /\ cells'[i]._prev = cells[i]._prev
                /\ i \notin Reach(cells, last'.self) => cells'[i].grad = cells[i].grad]_vars

\* C10: gradients accumulate across passes.  After backward(r1) and
\* backward(r2), in either order, from all-zero gradients, over two graphs of
\* add and multiply that share only leaves, every cell of the two graphs
\* holds d(r1)/dcell + d(r2)/dcell; a pass sets its root's gradient to 1 and
\* leaves every value, every operand set and the gradient of every cell its
\* root does not reach unchanged.
C10_Accumulates == []C10_Sum /\ C10_Frame

\* C10 witness: two passes from different roots have both added a nonzero
\* derivative to a leaf the two graphs share.
C10_Witness ==
    /\ TwoPasses /\ hist.roots[1] # hist.roots[2]
    /\ SharedLeavesOnly(hist.roots[1], hist.roots[2])
    /\ \E p \in Reach(cells, hist.roots[1]) \cap Reach(cells, hist.roots[2]) :
        /\ Deriv(cells, p, hist.roots[1]).n # 0
        /\ Deriv(cells, p, hist.roots[2]).n # 0
        /\ cells[p].grad.n # 0

\* C6: a loader with batch_size None over a non-empty dataset hands a for-loop
\* one batch holding every sample, and the next __next__ raises StopIteration.
C6_OneBatchThenStop ==
    (loader.batch_size = None /\ Len(loader.data) > 0 /\ iter.pc # "idle") =>
        /\ Len(iter.got) <= 1
        /\ iter.pc = "stopped" => iter.got = <<Unzip(loader.data)>>

Batches == iter.got
BatchLen(b) == Len(Batches[b][1])

\* C7: every loop over a loader with batch_size k >= 1 and n samples, the
\* first and the later ones, ends having received ceil(n/k) batches, each of
\* k samples except possibly the last, holding every sample exactly once,
\* each x with its own y.
C7_EveryPassComplete ==
    (loader.batch_size # None /\ iter.pc = "stopped") =>
        LET k == loader.batch_size[1]
            n == Len(loader.data)
        IN  /\ Len(Batches) = (n + k - 1) \div k
            /\ \A b \in 1..Len(Batches) :
                /\ Len(Batches[b][2]) = BatchLen(b)
                /\ BatchLen(b) >= 1 /\ BatchLen(b) <= k
                /\ b < Len(Batches) => BatchLen(b) = k
                /\ \A j \in 1..BatchLen(b) : Batches[b][2][j] = LabelOf(Batches[b][1][j])
            /\ \A x \in 1..n :
                Cardinality({bj \in {<<b, j>> : b \in 1..Len(Batches), j \in 1..MaxBatch} :
                    bj[2] <= BatchLen(bj[1]) /\ Batches[bj[1]][1][bj[2]] = x}) = 1

====
